---- MODULE Spec2Model ----
(***************************************************************************)
(* A model of src/main.py: the identifier sanitizers of MySQLTestSetup,    *)
(* the type inference and the wide-to-long reshape of DataFileProcessor,   *)
(* and the watch loop of main().                                           *)
(*                                                                         *)
(* A name (an identifier, a file name of the watched directory) is a       *)
(* sequence of one-character strings, so that the code's work on its       *)
(* characters is computed; the value of a cell is an opaque string.  Each  *)
(* part of the program has its own specification (SpecSanitize, SpecInfer, *)
(* SpecReshape, SpecWatch); the variables of the other parts stay idle.    *)
(***************************************************************************)
EXTENDS Integers, Sequences, FiniteSets, TLC

VARIABLES
    raw_name,        \* the string handed to a sanitizer
    column_name,     \* outcome of sanitize_column_name(raw_name)
    table_name,      \* outcome of sanitize_table_name(raw_name)
    series,          \* the column handed to infer_and_convert_type
    inferred,        \* outcome of infer_and_convert_type(series)
    first_kind,      \* kind of the first inference, once its values were
                     \* turned back into strings ("" before)
    df,              \* the typed table handed to save_to_database
    file_name,       \* the file name handed to save_to_database
    melted,          \* melted_df, the long records of df
    all_data,        \* the rows of the sink table all_data
    saved,           \* outcome of save_to_database(df, file_name)
    directory,       \* the file names in data_dir
    pc,              \* where main() is: startup, poll, files, sleep, stopped
    processed_files, \* main()'s set of the same name
    new_files,       \* the new files of the cycle not yet iterated over
    attempts,        \* per file name, the calls of process_file (2: two or more)
    ingested,        \* file names logged "Successfully processed and saved"
    errors,          \* file names logged "Error processing"
    skipped,         \* file names listed again after they were processed
    stop_cause       \* what ended main(): "", KeyboardInterrupt, Exception

sanVars == <<raw_name, column_name, table_name>>

infVars == <<series, inferred, first_kind>>

rsVars == <<df, file_name, melted, all_data, saved>>

wVars == <<directory, pc, processed_files, new_files, attempts, ingested, errors,
           skipped, stop_cause>>

vars == <<raw_name, column_name, table_name, series, inferred, first_kind,
          df, file_name, melted, all_data, saved,
          directory, pc, processed_files, new_files, attempts, ingested, errors,
          skipped, stop_cause>>

Min(a, b) == IF a < b THEN a ELSE b

(***************************************************************************)
(* Characters.  re's \w is a letter, a digit or the underscore; \d is a    *)
(* digit; str.isalpha() is a letter.                                       *)
(***************************************************************************)
Letters ==
    {"a", "b", "c", "d", "e", "f", "g", "h", "i", "j", "k", "l", "m",
     "n", "o", "p", "q", "r", "s", "t", "u", "v", "w", "x", "y", "z"}

Digits == {"0", "1", "2", "3", "4", "5", "6", "7", "8", "9"}

IsAlpha(c) == c \in Letters

IsDigit(c) == c \in Digits

IsWord(c) == IsAlpha(c) \/ IsDigit(c) \/ c = "_"

\* s[:n]
Truncate(s, n) == SubSeq(s, 1, Min(Len(s), n))

\* the longest prefix limit of a column name, sanitized[:64]
ColumnLimit == 64

\* the length budget of a table name before its prefix, sanitized[:63]
TableLimit == 63

ColumnPrefix == <<"c", "o", "l", "u", "m", "n", "_">>

TablePrefix == <<"t", "_">>

DefaultTable == <<"t", "a", "b", "l", "e">>

\* an outcome of a call: a returned value, or the exception it raised
Returned(v) == [raised |-> "none", value |-> v]

Raised(e) == [raised |-> e, value |-> <<>>]

NotCalled == [raised |-> "not called", value |-> <<>>]

(***************************************************************************)
(* sanitize_column_name                                                    *)
(***************************************************************************)
\* re.sub(r'[^\w]', '_', column_name)
ReplaceNonWord(s) == [i \in 1..Len(s) |-> IF IsWord(s[i]) THEN s[i] ELSE "_"]

\* sanitized[0] on an empty string raises IndexError before anything is
\* prefixed or returned
sanitize_column_name(s) ==
    LET sanitized == ReplaceNonWord(s)
    IN  IF Len(sanitized) = 0
        THEN Raised("IndexError")
        ELSE IF ~IsAlpha(sanitized[1])
             THEN Returned(Truncate(ColumnPrefix \o sanitized, ColumnLimit))
             ELSE Returned(Truncate(sanitized, ColumnLimit))

(***************************************************************************)
(* sanitize_table_name                                                     *)
(***************************************************************************)
\* re.sub(r'[^\w]', '', table_name)
StripNonWord(s) == SelectSeq(s, IsWord)

\* a slip: only the first digit is removed
StripFirstDigit(s) == IF Len(s) > 0 /\ IsDigit(s[1]) THEN Tail(s) ELSE s

\* re.sub(r'^\d+', '', sanitized)
RECURSIVE StripLeadingDigits(_)
StripLeadingDigits(s) ==
    IF Len(s) > 0 /\ IsDigit(s[1]) THEN StripLeadingDigits(Tail(s)) ELSE s

sanitize_table_name(s) ==
    LET stripped == StripLeadingDigits(StripNonWord(s))
        named == IF Len(stripped) = 0 THEN DefaultTable ELSE stripped
    IN  Returned(TablePrefix \o Truncate(named, TableLimit))

(***************************************************************************)
(* Inputs of the sanitizers: a short arbitrary head followed by a run of   *)
(* one character, long enough to cross both length limits.                 *)
(***************************************************************************)
MaxHead == 3

Alphabet == {"a", "7", "_", "-"}

RECURSIVE SeqsUpTo(_, _)
SeqsUpTo(S, n) ==
    IF n = 0 THEN {<<>>}
    ELSE LET shorter == SeqsUpTo(S, n - 1)
         IN  shorter \cup {Append(s, c) : s \in shorter, c \in S}

Run(c, n) == [i \in 1..n |-> c]

RunLengths == {0} \cup ((ColumnLimit - 10)..(ColumnLimit + 2))

RawNames(head) ==
    {h \o Run(c, n) : h \in SeqsUpTo(Alphabet, head), c \in Alphabet, n \in RunLengths}

InitSanitize ==
    /\ raw_name \in RawNames(MaxHead)
    /\ column_name = NotCalled
    /\ table_name = NotCalled

IdleSanitize ==
    /\ raw_name = <<>>
    /\ column_name = NotCalled
    /\ table_name = NotCalled

SanitizeColumn ==
    /\ column_name = NotCalled
    /\ column_name' = sanitize_column_name(raw_name)
    /\ UNCHANGED <<raw_name, table_name>>
    /\ UNCHANGED <<infVars, rsVars, wVars>>

SanitizeTable ==
    /\ table_name = NotCalled
    /\ table_name' = sanitize_table_name(raw_name)
    /\ UNCHANGED <<raw_name, column_name>>
    /\ UNCHANGED <<infVars, rsVars, wVars>>

NextSanitize == SanitizeColumn \/ SanitizeTable

\* the properties a storage identifier has
AllWord(s) == \A i \in 1..Len(s) : IsWord(s[i])

\* C1: once sanitize_column_name has been called on any string, the empty
\* string included, it has returned (not raised) a name that is non-empty,
\* starts with a letter, holds only word characters and is at most 64 long.
C1_ColumnNameValid ==
    column_name # NotCalled =>
        /\ column_name.raised = "none"
        /\ Len(column_name.value) > 0
        /\ IsAlpha(column_name.value[1])
        /\ AllWord(column_name.value)
        /\ Len(column_name.value) <= ColumnLimit

\* C2: once sanitize_table_name has been called on any string, it has
\* returned a name that starts with t_, whose rest is non-empty, holds only
\* word characters and does not start with a digit, and whose length is at
\* most 63 plus the length of the prefix.
C2_TableNameValid ==
    table_name # NotCalled =>
        LET name == table_name.value
            rest == SubSeq(name, Len(TablePrefix) + 1, Len(name))
        IN  /\ table_name.raised = "none"
            /\ Len(name) >= Len(TablePrefix)
            /\ SubSeq(name, 1, Len(TablePrefix)) = TablePrefix
            /\ Len(rest) > 0
            /\ AllWord(rest)
            /\ ~IsDigit(rest[1])
            /\ Len(name) <= TableLimit + Len(TablePrefix)

\* a name with a character to strip, leading digits and more than 63 word
\* characters has been sanitized, and was cut to the full length
C2_Witness ==
    /\ table_name # NotCalled
    /\ Len(raw_name) > TableLimit + 2
    /\ raw_name[1] = "-"
    /\ raw_name[2] = "7"
    /\ raw_name[3] = "7"
    /\ Len(table_name.value) = TableLimit + Len(TablePrefix)

\* a name made only of characters that are stripped gets the default token
C2_WitnessDefault ==
    /\ table_name # NotCalled
    /\ Len(raw_name) > 0
    /\ \A i \in 1..Len(raw_name) : raw_name[i] \in {"-", "7"}
    /\ table_name.value = TablePrefix \o DefaultTable

(***************************************************************************)
(* Columns.  A cell is a tagged value: a string, a missing value (NaN,     *)
(* None, NaT), or a native bool, int, float or timestamp.  A column (a     *)
(* pandas Series) is a dtype and its cells.  The decoders give dtype       *)
(* object to a column of strings and to a column of mixed cells, and a     *)
(* native dtype to a column they could type themselves.                    *)
(***************************************************************************)
StrCell(v) == [k |-> "str", v |-> v]

BoolCell(v) == [k |-> "bool", v |-> v]

IntCell(v) == [k |-> "int", v |-> v]

FloatCell(v) == [k |-> "float", v |-> v]

TimestampCell(v) == [k |-> "datetime", v |-> v]

NaN == [k |-> "nan", v |-> ""]

Series(dtype, values) == [dtype |-> dtype, values |-> values]

\* strings the temporal parse accepts: dates, and a bare year
DateStrings == {"2023-01-01", "2000-01-01", "1970-01-01 00:00:00.000000001"}

YearStrings == {"2000"}

\* strings the numeric parse accepts, and the float each integer becomes in
\* a column that also holds a missing value
IntStrings == {"0", "1", "2000"}

FloatStrings == {"0.0", "1.0", "2000.0"}

AsFloat(v) ==
    CASE v = "0" -> "0.0"
      [] v = "1" -> "1.0"
      [] v = "2000" -> "2000.0"
      [] OTHER -> v

\* an integer cell of an object column read as nanoseconds since the epoch
EpochTimestamp(v) ==
    CASE v = "1" -> "1970-01-01 00:00:00.000000001"
      [] OTHER -> "1970-01-01"

(***************************************************************************)
(* pd.to_datetime(series), cell by cell: the exception a cell raises       *)
(* ("none" when it parses) and the timestamp it becomes.  A string shorter *)
(* than a year that reads as a number ("1", "0", "1.0") is refused as not  *)
(* a date, like any other text; a native bool is a TypeError.              *)
(***************************************************************************)
DatetimeError(c) ==
    CASE c.k = "str" ->
            IF c.v \in DateStrings \cup YearStrings THEN "none" ELSE "ValueError"
      [] c.k = "bool" -> "TypeError"
      [] OTHER -> "none"

DatetimeOf(c) ==
    CASE c.k = "str" /\ c.v \in YearStrings -> TimestampCell("2000-01-01")
      [] c.k = "str" -> TimestampCell(c.v)
      [] c.k = "int" -> TimestampCell(EpochTimestamp(c.v))
      [] c.k = "nan" -> NaN
      [] OTHER -> c

(***************************************************************************)
(* pd.to_numeric(series), cell by cell.                                    *)
(***************************************************************************)
NumericError(c) ==
    CASE c.k = "str" ->
            IF c.v \in IntStrings \cup FloatStrings THEN "none" ELSE "ValueError"
      [] c.k = "datetime" -> "TypeError"
      [] OTHER -> "none"

NumericOf(c) ==
    CASE c.k = "str" /\ c.v \in IntStrings -> IntCell(c.v)
      [] c.k = "str" -> FloatCell(c.v)
      [] OTHER -> c

\* the exception of the first cell that fails, "none" when every cell parses
RECURSIVE FirstError(_)
FirstError(errs) ==
    IF errs = <<>> THEN "none"
    ELSE IF Head(errs) # "none" THEN Head(errs)
    ELSE FirstError(Tail(errs))

\* what pd.to_datetime(series) and pd.to_numeric(series) raise
DatetimeRaises(values) ==
    FirstError([i \in 1..Len(values) |-> DatetimeError(values[i])])

NumericRaises(values) ==
    FirstError([i \in 1..Len(values) |-> NumericError(values[i])])

to_datetime(values) == [i \in 1..Len(values) |-> DatetimeOf(values[i])]

\* an integer column stays integer; a missing value or a float makes it float
to_numeric(values) ==
    LET parsed == [i \in 1..Len(values) |-> NumericOf(values[i])]
        floating == \E i \in 1..Len(parsed) : parsed[i].k \in {"nan", "float"}
    IN  IF floating
        THEN Series("float64",
                    [i \in 1..Len(parsed) |->
                        IF parsed[i].k = "int" THEN FloatCell(AsFloat(parsed[i].v))
                        ELSE parsed[i]])
        ELSE Series("int64", parsed)

(***************************************************************************)
(* The boolean heuristic.                                                  *)
(***************************************************************************)
\* series.isin([True, False, 'True', 'False', 1, 0]): the strings "1" and
\* "0" are not in the list
IsIn(c) ==
    \/ c.k = "bool"
    \/ c.k = "str" /\ c.v \in {"True", "False"}
    \/ c.k = "int" /\ c.v \in {"1", "0"}
    \/ c.k = "float" /\ c.v \in {"1.0", "0.0"}

\* the threshold of .mean() > 0.8, as a fraction
ThresholdNum == 4

ThresholdDen == 5

\* the number of True in a column of booleans
Count(flags) == Cardinality({i \in 1..Len(flags) : flags[i]})

\* series.isin([...]).mean() > 0.8; the mean of no value is NaN, not > 0.8
MostlyBoolean(values) ==
    /\ Len(values) > 0
    /\ Count([i \in 1..Len(values) |-> IsIn(values[i])]) * ThresholdDen
            > Len(values) * ThresholdNum

\* series.map({'True': True, 'False': False, '1': True, '0': False}): the
\* keys are strings, any other cell maps to NaN
MapBoolean(c) ==
    CASE c.k = "str" /\ c.v \in {"True", "1"} -> BoolCell("True")
      [] c.k = "str" /\ c.v \in {"False", "0"} -> BoolCell("False")
      [] OTHER -> NaN

map_boolean(values) ==
    LET mapped == [i \in 1..Len(values) |-> MapBoolean(values[i])]
        missing == {i \in 1..Len(mapped) : mapped[i] = NaN}
    IN  Series(IF missing = {} THEN "bool"
               ELSE IF missing = 1..Len(mapped) THEN "float64"
               ELSE "object",
               mapped)

(***************************************************************************)
(* infer_and_convert_type.  The outcome names the exception raised, the    *)
(* strategy that committed (the kind) and the column returned.             *)
(***************************************************************************)
Typed(kind, s) == [raised |-> "none", kind |-> kind, series |-> s]

Failed(e) == [raised |-> e, kind |-> "", series |-> Series("object", <<>>)]

Pending == [raised |-> "not called", kind |-> "", series |-> Series("object", <<>>)]

\* the kind of a column that is returned as it came
NativeKind(dtype) ==
    CASE dtype = "datetime64" -> "Temporal"
      [] dtype \in {"int64", "float64"} -> "Numeric"
      [] dtype = "bool" -> "Boolean"
      [] OTHER -> "Text"

\* except ValueError
Caught(e) == e = "ValueError"

\* a slip: a column with nothing to parse is left as text
TemporalCommitsNonEmpty(values) ==
    /\ DatetimeRaises(values) = "none"
    /\ \E i \in 1..Len(values) : values[i] # NaN

\* to_datetime returns: every cell parses, vacuously so for no cell
TemporalCommits(values) == DatetimeRaises(values) = "none"

infer_and_convert_type(s) ==
    IF s.dtype # "object" THEN Typed(NativeKind(s.dtype), s)
    ELSE LET dt == DatetimeRaises(s.values)
             num == NumericRaises(s.values)
         IN  IF TemporalCommits(s.values)
                THEN Typed("Temporal", Series("datetime64", to_datetime(s.values)))
             ELSE IF dt # "none" /\ ~Caught(dt) THEN Failed(dt)
             ELSE IF num = "none" THEN Typed("Numeric", to_numeric(s.values))
             ELSE IF ~Caught(num) THEN Failed(num)
             ELSE IF MostlyBoolean(s.values)
                THEN Typed("Boolean", map_boolean(s.values))
             ELSE Typed("Text", s)

(***************************************************************************)
(* The values of a typed column turned back into strings: a missing value  *)
(* stays missing.                                                          *)
(***************************************************************************)
StringOf(c) == IF c.k = "nan" THEN NaN ELSE StrCell(c.v)

Stringified(s) == Series("object", [i \in 1..Len(s.values) |-> StringOf(s.values[i])])

(***************************************************************************)
(* Columns a decoded file can hold.                                        *)
(***************************************************************************)
MaxRows == 5

MaxMixedRows == 3

MaxRun == 6

MaxNativeRows == 2

\* cells of a column of text
TextCells == {StrCell("True"), StrCell("False"), StrCell("1"), StrCell("0"), StrCell("x"),
              StrCell("2023-01-01"), NaN}

\* cells of a column that mixes text with native values (a spreadsheet)
MixedCells == {StrCell("True"), StrCell("x"), NaN, BoolCell("True"), IntCell("1")}

\* longer columns: at most one arbitrary cell, then a run of one string
LongColumns(run) ==
    {h \o Run(c, n) : h \in SeqsUpTo(TextCells \cup MixedCells, 1),
                      c \in TextCells \ {NaN}, n \in 1..run}

\* a column the decoder typed itself has at least one row (a column with no
\* row is decoded as object)
NativeColumns(dtype, cells, rows) ==
    {Series(dtype, v) : v \in SeqsUpTo(cells, rows) \ {<<>>}}

\* a mixed column holds a string and a native value
MixedColumns(rows) ==
    {v \in SeqsUpTo(MixedCells, rows) :
        /\ \E i \in 1..Len(v) : v[i].k = "str"
        /\ \E i \in 1..Len(v) : v[i].k \in {"bool", "int"}}

Columns(rows, mixed, run, native) ==
    {Series("object", v) : v \in SeqsUpTo(TextCells, rows)}
    \cup {Series("object", v) : v \in LongColumns(run)}
    \cup {Series("object", v) : v \in MixedColumns(mixed)}
    \cup NativeColumns("int64", {IntCell("0"), IntCell("1"), IntCell("2000")}, native)
    \cup NativeColumns("float64", {FloatCell("1.0"), NaN}, native)
    \cup NativeColumns("bool", {BoolCell("True"), BoolCell("False")}, native)
    \cup NativeColumns("datetime64", {TimestampCell("2023-01-01"), NaN}, native)

InitInfer ==
    /\ series \in Columns(MaxRows, MaxMixedRows, MaxRun, MaxNativeRows)
    /\ inferred = Pending
    /\ first_kind = ""

IdleInfer ==
    /\ series = Series("object", <<>>)
    /\ inferred = Pending
    /\ first_kind = ""

\* process_file: df[column] = self.infer_and_convert_type(df[column])
Infer ==
    /\ inferred = Pending
    /\ inferred' = infer_and_convert_type(series)
    /\ UNCHANGED <<series, first_kind>>
    /\ UNCHANGED <<sanVars, rsVars, wVars>>

\* the typed column's values are turned back into strings, to be inferred again
Restring ==
    /\ inferred.raised = "none"
    /\ first_kind = ""
    /\ series' = Stringified(inferred.series)
    /\ first_kind' = inferred.kind
    /\ inferred' = Pending
    /\ UNCHANGED <<sanVars, rsVars, wVars>>

NextInfer == Infer \/ Restring

\* the first inference of the column has ended
FirstInferred == first_kind = "" /\ inferred # Pending

AllMissing(values) == \A i \in 1..Len(values) : values[i] = NaN

\* the literals the boolean rule is said to recognize: true, false, "True",
\* "False", 1, 0, and the strings "1" and "0"
Recognized(c) ==
    \/ c.k = "bool"
    \/ c.k = "int" /\ c.v \in {"1", "0"}
    \/ c.k = "str" /\ c.v \in {"True", "False", "1", "0"}

BooleanValue(c) ==
    IF c.v \in {"True", "1"} THEN BoolCell("True") ELSE BoolCell("False")

\* C3: a text column on which the temporal and the numeric parse both fail
\* and of whose values more than 80% are recognized literals is returned as
\* a Boolean column: every recognized literal mapped to its boolean value,
\* every other value missing.
C3_BooleanHeuristic ==
    ( /\ FirstInferred
      /\ series.dtype = "object"
      /\ DatetimeRaises(series.values) # "none"
      /\ NumericRaises(series.values) # "none"
      /\ Count([i \in 1..Len(series.values) |-> Recognized(series.values[i])])
            * ThresholdDen > Len(series.values) * ThresholdNum )
    => /\ inferred.raised = "none"
       /\ inferred.kind = "Boolean"
       /\ \A i \in 1..Len(series.values) :
            inferred.series.values[i] =
                IF Recognized(series.values[i]) THEN BooleanValue(series.values[i])
                ELSE NaN

\* C4 as stated: a column whose values are all missing is inferred as Text.
C4_AllMissingIsText ==
    (FirstInferred /\ AllMissing(series.values)) => inferred.kind = "Text"

\* C4 as amended: a column whose values are all missing is never inferred
\* as Text.  A text (object) column with no value, or with only missing
\* values, is committed by the temporal parse, which succeeds vacuously, and
\* is returned as a Temporal column of missing values; a column the decoder
\* typed itself is returned as it came, with its native kind.
C4_AllMissingNeverText ==
    (FirstInferred /\ AllMissing(series.values)) =>
        /\ inferred.raised = "none"
        /\ inferred.kind # "Text"
        /\ series.dtype = "object" =>
                /\ inferred.kind = "Temporal"
                /\ inferred.series.dtype = "datetime64"
                /\ Len(inferred.series.values) = Len(series.values)
                /\ AllMissing(inferred.series.values)
        /\ series.dtype # "object" =>
                /\ inferred.kind = NativeKind(series.dtype)
                /\ inferred.series = series

\* a text column with no row has been inferred
C4_WitnessNoRow ==
    /\ FirstInferred
    /\ series = Series("object", <<>>)
    /\ inferred.kind = "Temporal"

\* a text column with one missing value has been inferred
C4_WitnessOneMissing ==
    /\ FirstInferred
    /\ series = Series("object", <<NaN>>)
    /\ inferred.kind = "Temporal"

\* C5: infer_and_convert_type never raises: whatever failure a parse
\* produces, the call returns a column.
C5_NeverRaises == inferred.raised \in {"not called", "none"}

\* C7: inferring the stringified values of a typed column gives the kind of
\* the first inference.
C7_Idempotent ==
    (first_kind # "" /\ inferred # Pending) =>
        /\ inferred.raised = "none"
        /\ inferred.kind = first_kind

(***************************************************************************)
(* save_to_database: the wide table is melted into long records, one per   *)
(* cell, and the records are appended to the sink table all_data.  A table *)
(* is a sequence of columns, each a name and its cells, all of one length. *)
(***************************************************************************)
Column(name, values) == [name |-> name, values |-> values]

\* a record of melted_df, with the source_file column set
LongRecord(file, column, value) ==
    [source_file |-> file, data_column |-> column, data_value |-> value]

\* a slip: the records are emitted row by row
RECURSIVE MeltByRow(_, _)
MeltByRow(table, file) ==
    IF table = <<>> \/ Len(table[1].values) = 0 THEN <<>>
    ELSE [j \in 1..Len(table) |->
            LongRecord(file, table[j].name, table[j].values[1])]
         \o MeltByRow([j \in 1..Len(table) |->
                        Column(table[j].name, Tail(table[j].values))], file)

\* df.melt(var_name='data_column', value_name='data_value') followed by
\* melted_df['source_file'] = file_name: the cells of the first column in row
\* order, then those of the second, a missing cell kept
RECURSIVE Melt(_, _)
Melt(table, file) ==
    IF table = <<>> THEN <<>>
    ELSE [i \in 1..Len(table[1].values) |->
            LongRecord(file, table[1].name, table[1].values[i])]
         \o Melt(Tail(table), file)

\* a row of all_data: id is AUTO_INCREMENT, data_value is TEXT and NULL for
\* a missing value
SinkRow(id, rec) ==
    [id |-> id, source_file |-> rec.source_file, data_column |-> rec.data_column,
     data_value |-> StringOf(rec.data_value)]

\* melted_df.to_sql(name='all_data', if_exists='append', index=False)
to_sql(rows, records) ==
    rows \o [i \in 1..Len(records) |-> SinkRow(Len(rows) + i, records[i])]

MaxCols == 2

MaxTableRows == 2

\* the header of a file, not in alphabetical order
ColumnNames == <<"colB", "colA", "colD", "colC">>

TableCells == {IntCell("1"), StrCell("x"), NaN}

FileNames == {"f.csv", "g.csv"}

\* tables of at most cols columns, named by the header (the decoders rename
\* a repeated header, so the names are distinct), and of at most rows rows
RECURSIVE SeqsOfLen(_, _)
SeqsOfLen(S, n) ==
    IF n = 0 THEN {<<>>} ELSE {Append(s, c) : s \in SeqsOfLen(S, n - 1), c \in S}

Tables(cols, rows) ==
    UNION {
        {[j \in 1..c |-> Column(ColumnNames[j], t[j])] :
            t \in SeqsOfLen(SeqsOfLen(TableCells, r), c)}
        : c \in 0..Min(cols, Len(ColumnNames)), r \in 0..rows}

\* rows an earlier file left in the sink
EarlierRows == to_sql(<<>>, <<LongRecord("e.csv", "colA", StrCell("y"))>>)

InitReshape ==
    /\ df \in Tables(MaxCols, MaxTableRows)
    /\ file_name \in FileNames
    /\ melted = <<>>
    /\ all_data \in {<<>>, EarlierRows}
    /\ saved = "not called"

IdleReshape ==
    /\ df = <<>>
    /\ file_name = ""
    /\ melted = <<>>
    /\ all_data = <<>>
    /\ saved = "not called"

\* test_connection() returns False: the exception is logged and raised again
SaveNoConnection ==
    /\ saved = "not called"
    /\ saved' = "Exception"
    /\ UNCHANGED <<df, file_name, melted, all_data>>
    /\ UNCHANGED <<sanVars, infVars, wVars>>

\* to_sql fails: the table was melted, nothing is appended
SaveSinkFails ==
    /\ saved = "not called"
    /\ melted' = Melt(df, file_name)
    /\ saved' = "Exception"
    /\ UNCHANGED <<df, file_name, all_data>>
    /\ UNCHANGED <<sanVars, infVars, wVars>>

SaveSucceeds ==
    /\ saved = "not called"
    /\ melted' = Melt(df, file_name)
    /\ all_data' = to_sql(all_data, Melt(df, file_name))
    /\ saved' = "none"
    /\ UNCHANGED <<df, file_name>>
    /\ UNCHANGED <<sanVars, infVars, wVars>>

NextReshape == SaveNoConnection \/ SaveSinkFails \/ SaveSucceeds

NumCols == Len(df)

NumRows == IF df = <<>> THEN 0 ELSE Len(df[1].values)

\* the records grouped by column name: the names in the order they first
\* appear, each with its values in the order of the records
RECURSIVE Regroup(_)
Regroup(records) ==
    IF records = <<>> THEN <<>>
    ELSE LET name == records[1].data_column
             Mine(r) == r.data_column = name
             Others(r) == r.data_column # name
             mine == SelectSeq(records, Mine)
         IN  <<Column(name, [i \in 1..Len(mine) |-> mine[i].data_value])>>
             \o Regroup(SelectSeq(records, Others))

Csv == <<".", "c", "s", "v">>

Xls == <<".", "x", "l", "s">>

Xlsx == <<".", "x", "l", "s", "x">>

\* str.endswith
EndsWith(s, suffix) ==
    /\ Len(s) >= Len(suffix)
    /\ SubSeq(s, Len(s) - Len(suffix) + 1, Len(s)) = suffix

\* filename.endswith(('.xlsx', '.xls', '.csv')): the case of the letters counts
HasSupportedSuffix(f) == \E suffix \in {Xlsx, Xls, Csv} : EndsWith(f, suffix)

\* str.lower, for the letters of the extensions
Lower(s) ==
    [i \in 1..Len(s) |->
        CASE s[i] = "C" -> "c" [] s[i] = "S" -> "s" [] s[i] = "V" -> "v"
          [] s[i] = "X" -> "x" [] s[i] = "L" -> "l" [] OTHER -> s[i]]

\* os.path.splitext(file_path)[1]: from the last dot on, "" without a dot
\* or when the only dot leads the name
Splitext(f) ==
    LET dots == {i \in 2..Len(f) : f[i] = "."}
    IN  IF dots = {} THEN <<>>
        ELSE LET last == CHOOSE i \in dots : \A j \in dots : j <= i
             IN  SubSeq(f, last, Len(f))

\* process_file's dispatch on the lower-cased extension
Decoder(f) ==
    LET file_ext == Lower(Splitext(f))
    IN  IF file_ext \in {Xlsx, Xls} THEN "read_excel"
        ELSE IF file_ext = Csv THEN "read_csv"
        ELSE "ValueError"

FileNamesInDir ==
    { <<"a">> \o Csv,
      <<"b">> \o Xlsx,
      <<"c">> \o Xls,
      <<"D", ".", "C", "S", "V">>,
      <<"n", ".", "t", "x", "t">> }

\* what the pipeline of one file (process_file, then save_to_database) can
\* raise: an unsupported format or an undecodable content (ValueError,
\* ParserError), a file that is gone, a failure of the type inference
\* (TypeError), an unavailable sink (Exception); all are subclasses of
\* Exception
PipelineErrors ==
    {"ValueError", "ParserError", "FileNotFoundError", "TypeError", "Exception"}

\* a slip: except ValueError around the pipeline of a file
CaughtValueErrorOnly(e) == e = "ValueError"

\* except Exception as e (KeyboardInterrupt is not an Exception)
CaughtPerFile(e) == e \in PipelineErrors

\* a slip: the file is marked inside the try block, after the save
MarkedWhenSaved(processed, f, e) == IF e = "none" THEN processed \cup {f} ELSE processed

\* processed_files.add(filename), after the try statement
Marked(processed, f, e) == processed \cup {f}

Bump(n) == IF n >= 2 THEN 2 ELSE n + 1

InitWatch ==
    /\ directory \in SUBSET FileNamesInDir
    /\ pc = "startup"
    /\ processed_files = {}
    /\ new_files = {}
    /\ attempts = [f \in FileNamesInDir |-> 0]
    /\ ingested = {}
    /\ errors = {}
    /\ skipped = {}
    /\ stop_cause = ""

IdleWatch ==
    /\ directory = {}
    /\ pc = "stopped"
    /\ processed_files = {}
    /\ new_files = {}
    /\ attempts = [f \in FileNamesInDir |-> 0]
    /\ ingested = {}
    /\ errors = {}
    /\ skipped = {}
    /\ stop_cause = ""

Stop(cause) ==
    /\ pc' = "stopped"
    /\ stop_cause' = cause

\* the connection test, create_database and create_generic_table succeed
Startup ==
    /\ pc = "startup"
    /\ pc' = "poll"
    /\ UNCHANGED <<directory, processed_files, new_files, attempts, ingested, errors,
                   skipped, stop_cause>>
    /\ UNCHANGED <<sanVars, infVars, rsVars>>

\* one of them raises: logged as "Error in main execution" and raised again
StartupFails ==
    /\ pc = "startup"
    /\ Stop("Exception")
    /\ UNCHANGED <<directory, processed_files, new_files, attempts, ingested, errors,
                   skipped>>
    /\ UNCHANGED <<sanVars, infVars, rsVars>>

\* current_files = set(os.listdir(data_dir)); new_files = current_files -
\* processed_files (current_files is read nowhere else); with no new file
\* the cycle goes to its sleep
Poll ==
    /\ pc = "poll"
    /\ new_files' = directory \ processed_files
    /\ skipped' = skipped \cup (directory \cap processed_files)
    /\ pc' = IF directory \ processed_files # {} THEN "files" ELSE "sleep"
    /\ UNCHANGED <<directory, processed_files, attempts, ingested, errors, stop_cause>>
    /\ UNCHANGED <<sanVars, infVars, rsVars>>

\* os.listdir raises (data_dir is gone): the exception leaves the loop
PollFails ==
    /\ pc = "poll"
    /\ Stop("Exception")
    /\ UNCHANGED <<directory, processed_files, new_files, attempts, ingested, errors,
                   skipped>>
    /\ UNCHANGED <<sanVars, infVars, rsVars>>

\* one iteration of "for filename in new_files" on a name without a
\* supported suffix: nothing is done, the name is not marked
SkipFile(f) ==
    /\ pc = "files"
    /\ f \in new_files
    /\ ~HasSupportedSuffix(f)
    /\ new_files' = new_files \ {f}
    /\ pc' = IF new_files \ {f} = {} THEN "sleep" ELSE "files"
    /\ UNCHANGED <<directory, processed_files, attempts, ingested, errors, skipped,
                   stop_cause>>
    /\ UNCHANGED <<sanVars, infVars, rsVars>>

\* one iteration on a name with a supported suffix, its pipeline ending
\* with e: "none" (saved), an error, or KeyboardInterrupt.  A file that has
\* left the directory since the listing cannot be read.
ProcessFile(f, e) ==
    /\ pc = "files"
    /\ f \in new_files
    /\ HasSupportedSuffix(f)
    /\ Decoder(f) = "ValueError" => e = "ValueError"
    /\ e = "none" => f \in directory
    /\ e = "FileNotFoundError" => f \notin directory
    /\ attempts' = [attempts EXCEPT ![f] = Bump(@)]
    /\ IF e = "none" \/ CaughtPerFile(e)
       THEN /\ ingested' = IF e = "none" THEN ingested \cup {f} ELSE ingested
            /\ errors' = IF e = "none" THEN errors ELSE errors \cup {f}
            /\ processed_files' = Marked(processed_files, f, e)
            /\ new_files' = new_files \ {f}
            /\ pc' = IF new_files \ {f} = {} THEN "sleep" ELSE "files"
            /\ UNCHANGED stop_cause
       ELSE /\ Stop(IF e = "KeyboardInterrupt" THEN e ELSE "Exception")
            /\ UNCHANGED <<ingested, errors, processed_files, new_files>>
    /\ UNCHANGED <<directory, skipped>>
    /\ UNCHANGED <<sanVars, infVars, rsVars>>

\* time.sleep(60) returns
Sleep ==
    /\ pc = "sleep"
    /\ pc' = "poll"
    /\ UNCHANGED <<directory, processed_files, new_files, attempts, ingested, errors,
                   skipped, stop_cause>>
    /\ UNCHANGED <<sanVars, infVars, rsVars>>

\* the user interrupts the program between two steps, or in its sleep
Interrupt ==
    /\ pc \in {"poll", "files", "sleep"}
    /\ Stop("KeyboardInterrupt")
    /\ UNCHANGED <<directory, processed_files, new_files, attempts, ingested, errors,
                   skipped>>
    /\ UNCHANGED <<sanVars, infVars, rsVars>>

\* the environment: a file arrives in the directory, or leaves it
FileArrives(f) ==
    /\ pc # "stopped"
    /\ f \notin directory
    /\ directory' = directory \cup {f}
    /\ UNCHANGED <<pc, processed_files, new_files, attempts, ingested, errors, skipped,
                   stop_cause>>
    /\ UNCHANGED <<sanVars, infVars, rsVars>>

FileLeaves(f) ==
    /\ pc # "stopped"
    /\ f \in directory
    /\ directory' = directory \ {f}
    /\ UNCHANGED <<pc, processed_files, new_files, attempts, ingested, errors, skipped,
                   stop_cause>>
    /\ UNCHANGED <<sanVars, infVars, rsVars>>

NextWatch ==
    \/ Startup
    \/ StartupFails
    \/ Poll
    \/ PollFails
    \/ \E f \in FileNamesInDir : SkipFile(f)
    \/ \E f \in FileNamesInDir :
         \E e \in {"none", "KeyboardInterrupt"} \cup PipelineErrors : ProcessFile(f, e)
    \/ Sleep
    \/ Interrupt
    \/ \E f \in FileNamesInDir : FileArrives(f)
    \/ \E f \in FileNamesInDir : FileLeaves(f)

\* a supported extension in any letter case
SupportedAnyCase(f) == HasSupportedSuffix(Lower(f))

\* C8: each file name is handed to the pipeline at most once: after the
\* iteration that attempted it, saved or failed, the name is in
\* processed_files while main() runs; processed_files loses no element; a
\* name in processed_files is not attempted again, whether it stayed in the
\* directory or came back.
C8_AtMostOnce ==
    [][ /\ processed_files \subseteq processed_files'
        /\ \A f \in FileNamesInDir :
            /\ attempts'[f] <= 1
            /\ (attempts'[f] >= 1 /\ pc' # "stopped") => f \in processed_files'
            /\ f \in processed_files => attempts'[f] = attempts[f] ]_vars

\* a file whose pipeline failed is still in the directory, was listed again
\* by a later poll, and that cycle is iterating over other new files
C8_Witness ==
    \E f \in errors \cap skipped \cap directory :
        /\ attempts[f] = 1
        /\ pc = "files"
        /\ new_files # {}

\* C9: no error of the pipeline of a file ends the loop: an iteration that
\* attempts a file either saves it, or is interrupted by the user, or logs
\* the error, leaves the other new files of the cycle to be iterated over
\* and stays in the loop.
C9_FileErrorsDoNotStop ==
    [][ \A f \in FileNamesInDir :
            attempts'[f] # attempts[f] =>
                \/ f \in ingested'
                \/ stop_cause' = "KeyboardInterrupt"
                \/ /\ f \in errors'
                   /\ f \in processed_files'
                   /\ stop_cause' = ""
                   /\ new_files' = new_files \ {f}
                   /\ pc' = IF new_files' = {} THEN "sleep" ELSE "files" ]_vars

\* after the error of one file, another file of the same cycle was saved
\* and the loop is at its next poll
C9_Witness ==
    /\ pc = "poll"
    /\ stop_cause = ""
    /\ errors # {}
    /\ ingested # {}
    /\ skipped = {}

\* after the error of a file, a later cycle has listed it again
C9_WitnessNextCycle ==
    /\ pc = "sleep"
    /\ stop_cause = ""
    /\ errors \cap skipped # {}

\* C10: a listed new file whose name ends in a supported extension in any
\* letter case is, once the cycle has iterated over it, handed to
\* process_file and marked processed.
C10_AnyCasePickedUp ==
    [][ \A f \in FileNamesInDir :
            (f \in new_files /\ f \notin new_files' /\ SupportedAnyCase(f)) =>
                /\ attempts'[f] >= 1
                /\ f \in processed_files' ]_vars

(***************************************************************************)
(* The specifications: one part runs, the others stay idle.                *)
(***************************************************************************)
StartSanitize == InitSanitize /\ IdleInfer /\ IdleReshape /\ IdleWatch

StartInfer == InitInfer /\ IdleSanitize /\ IdleReshape /\ IdleWatch

StartReshape == InitReshape /\ IdleSanitize /\ IdleInfer /\ IdleWatch

StartWatch == InitWatch /\ IdleSanitize /\ IdleInfer /\ IdleReshape

SpecSanitize == StartSanitize /\ [][NextSanitize]_vars

SpecInfer == StartInfer /\ [][NextInfer]_vars

SpecReshape == StartReshape /\ [][NextReshape]_vars

SpecWatch == StartWatch /\ [][NextWatch]_vars

====
